---------------------------- MODULE Spec2Model ----------------------------
(***************************************************************************)
(* A model of pubmedtools/pubmedtools.py: the paged retrieval of           *)
(* pubmed_search_biopython, the local-tool retrieval of                    *)
(* pubmed_search_edirect, the provisioning of prepare_edirect_folder and   *)
(* the construction of a row from a Medline record.                        *)
(*                                                                         *)
(* Three specifications share the variables:                               *)
(*   Spec         sequences of pubmed_search_biopython calls               *)
(*   SpecEdirect  prepare_edirect_folder and pubmed_search_edirect calls   *)
(*   SpecParse    the row construction of both paths on bounded records    *)
(***************************************************************************)
EXTENDS Integers, Sequences, FiniteSets, TLC

VARIABLES
    Entrez,          \* the module-level Bio.Entrez fields email and api_key
    pc,              \* position of the pubmed_search_biopython call
    args,            \* arguments of the call in progress
    search_results,  \* the dictionary read from esearch
    start,           \* loop variable of the batch loop
    r,               \* the list of rows accumulated by the call
    stream,          \* records Medline.parse has still to yield for the batch
    log,             \* requests and sleeps issued by the call, in order
    fetched,         \* the record streams the fetches of the call delivered
    exc,             \* the exception raised in the call
    outcome,         \* what the caller of the call receives
    fs,              \* the edirect install directory
    platform,        \* platform.system() of the host
    prep,            \* the last prepare_edirect_folder invocation
    installed,       \* some prepare_edirect_folder invocation has run to its end
    ed,              \* the last pubmed_search_edirect call
    rec,             \* SpecParse: the record under construction
    row              \* SpecParse: the row built from rec

bioVars == <<Entrez, pc, args, search_results, start, r, stream, log, fetched, exc, outcome>>
edVars == <<fs, platform, prep, installed, ed>>
parseVars == <<rec, row>>
vars == <<Entrez, pc, args, search_results, start, r, stream, log, fetched, exc, outcome,
          fs, platform, prep, installed, ed, rec, row>>

-----------------------------------------------------------------------------
(* Bounds of the model *)

MaxCount == 5
MaxBatchSize == 2
MaxBatches == 3
MaxRecs == 2
MaxStrLen == 4
MaxAbLen == 2

(* Program constants *)

MaxResults == 10000
SleepSeconds == 3

-----------------------------------------------------------------------------
(* Values *)

NONE == "None"

Min(a, b) == IF a < b THEN a ELSE b

Last(s) == s[Len(s)]

RECURSIVE Flatten(_)
Flatten(ss) == IF ss = <<>> THEN <<>> ELSE Head(ss) \o Flatten(Tail(ss))

SelectOp(s, op) == SelectSeq(s, LAMBDA e : e.op = op)

RECURSIVE TextsUpTo(_, _)
TextsUpTo(chars, n) ==
    IF n = 0 THEN {<<>>}
    ELSE LET shorter == TextsUpTo(chars, n - 1)
         IN  shorter \cup {Append(t, c) : t \in shorter, c \in chars}

-----------------------------------------------------------------------------
(* Medline records and rows *)

Whitespace == {" ", "\n", "\t"}

DigitValue == [c \in {"0", "1", "2"} |-> IF c = "0" THEN 0 ELSE IF c = "1" THEN 1 ELSE 2]

IsFault(record) == "fault" \in DOMAIN record

\* record.get(tag, '')
Get(record, tag) == IF tag \in DOMAIN record THEN record[tag]
                    ELSE IF tag \in {"PMID", "TI", "AB"} THEN <<>> ELSE ""

RECURSIVE DropWhitespace(_)
DropWhitespace(s) ==
    IF s # <<>> /\ Head(s) \in Whitespace THEN DropWhitespace(Tail(s)) ELSE s

\* A variant that replaces each whitespace character and merges no run
RECURSIVE SquashWhitespace(_)
SquashWhitespace(s) ==
    IF s = <<>> THEN <<>>
    ELSE IF Head(s) \in Whitespace THEN <<" ">> \o SquashWhitespace(Tail(s))
    ELSE <<Head(s)>> \o SquashWhitespace(Tail(s))

\* re.sub('\s+', ' ', s)
RECURSIVE CollapseWhitespace(_)
CollapseWhitespace(s) ==
    IF s = <<>> THEN <<>>
    ELSE IF Head(s) \in Whitespace
         THEN <<" ">> \o CollapseWhitespace(DropWhitespace(Tail(s)))
         ELSE <<Head(s)>> \o CollapseWhitespace(Tail(s))

\* int(pmid) raises ValueError unless the text is a decimal numeral
IntParses(p) == p # <<>> /\ \A i \in 1..Len(p) : p[i] \in DOMAIN DigitValue

RECURSIVE IntOf(_)
IntOf(p) == IF p = <<>> THEN 0 ELSE 10 * IntOf(SubSeq(p, 1, Len(p) - 1)) + DigitValue[Last(p)]

RowRaises(record) == ~IntParses(Get(record, "PMID"))

RowBiopython(record) ==
    [pmid |-> IntOf(Get(record, "PMID")),
     ti   |-> CollapseWhitespace(Get(record, "TI")),
     ab   |-> CollapseWhitespace(Get(record, "AB")),
     fau  |-> Get(record, "FAU"),
     dp   |-> Get(record, "DP"),
     mh   |-> Get(record, "MH"),
     ot   |-> Get(record, "OT")]

RowEdirect(record) ==
    [pmid |-> IntOf(Get(record, "PMID")),
     ti   |-> Get(record, "TI"),
     ab   |-> Get(record, "AB"),
     fau  |-> Get(record, "FAU"),
     dp   |-> Get(record, "DP"),
     mh   |-> Get(record, "MH"),
     ot   |-> Get(record, "OT")]

\* Records the remote delivers in the paging specifications
RecFull == [PMID |-> <<"1">>, TI |-> <<"F", "\n", "\t", "B">>, AB |-> <<"x", " ", " ", "y">>,
            FAU |-> "Doe, J", DP |-> "2023", MH |-> "Humans", OT |-> "k"]
RecDup == [PMID |-> <<"1">>, TI |-> <<"G">>]
RecNoId == [TI |-> <<"G">>]
RecBadId == [PMID |-> <<"x">>, TI |-> <<"G">>]
Fault == [fault |-> "IOError"]

GoodRecords == {RecFull, RecDup}
BadRecords == {RecNoId, RecBadId, Fault}

\* Streams of at most n records; the loop stops at the first record that
\* raises, so such a record is drawn in the last position only.
StreamsUpTo(n) ==
    LET good == UNION {[1..k -> GoodRecords] : k \in 0..n}
    IN  good \cup {Append(g, b) : g \in {x \in good : Len(x) < n}, b \in BadRecords}

-----------------------------------------------------------------------------
(* pubmed_search_biopython *)

Emails == {"", "me@lab.org"}
ApiKeys == {NONE, "K1", "K2"}
WebEnvs == {"MCID_1", "MCID_2"}
QueryKeys == {"1", "2"}
BatchSizes == (1..MaxBatchSize) \cup {MaxResults \div 2, MaxResults}
Counts == (0..MaxCount) \cup {MaxResults, MaxResults + 1}

NumBatches(count, batch_size) == (count + batch_size - 1) \div batch_size

NoResults == [Count |-> -1, WebEnv |-> "", QueryKey |-> ""]
NoArgs == [email |-> "", api_key |-> NONE, batch_size |-> 0]
NoOutcome == [kind |-> "none"]

\* if api_key: Entrez.api_key = api_key
SetCredentials(old, email, api_key) ==
    [email |-> email, api_key |-> IF api_key # NONE THEN api_key ELSE old.api_key]

SearchRequest(entrez) ==
    [op |-> "esearch", email |-> entrez.email, api_key |-> entrez.api_key]

FetchRequest(entrez, results, retstart, batch_size) ==
    [op |-> "efetch", email |-> entrez.email, api_key |-> entrez.api_key,
     retstart |-> retstart, retmax |-> batch_size,
     webenv |-> results.WebEnv, query_key |-> results.QueryKey]

SleepEvent == [op |-> "sleep", secs |-> SleepSeconds]

TooLarge_AtCeiling(count) == count >= MaxResults

TooLarge(count) == count > MaxResults

InRange_Inclusive(st, count) == st <= count

\* range(0, count, batch_size) has an element at start
InRange(st, count) == st < count

NextStart_Skip(st, batch_size) == st + batch_size + 1

NextStart(st, batch_size) == st + batch_size

SleepNeeded_Inclusive(st, batch_size, count) == (st + batch_size) <= count

SleepNeeded(st, batch_size, count) == (st + batch_size) < count

AppendRow_Dedup(rows, new) ==
    IF \E i \in 1..Len(rows) : rows[i].pmid = new.pmid THEN rows ELSE Append(rows, new)

AppendRow(rows, new) == Append(rows, new)

Returned(rows) == [kind |-> "returned", table |-> rows]

Propagate_Salvage(e, rows) == Returned(rows)

\* No handler anywhere: an exception leaves the function as it was raised
Propagate(e, rows) == [kind |-> "error", error |-> e]

Raise(e) ==
    /\ exc' = e
    /\ outcome' = Propagate(e, r)
    /\ pc' = "done"

\* Lines 75-93: credentials, esearch, the result-count check
Call(email, api_key, batch_size) ==
    /\ pc = "idle"
    /\ args' = [email |-> email, api_key |-> api_key, batch_size |-> batch_size]
    /\ Entrez' = SetCredentials(Entrez, email, api_key)
    /\ log' = <<SearchRequest(Entrez')>>
    /\ UNCHANGED <<start, r, stream, fetched>>
    /\ \/ /\ search_results' = NoResults
          /\ Raise("TransportError")
       \/ \E count \in Counts, webenv \in WebEnvs, query_key \in QueryKeys :
            /\ NumBatches(count, batch_size) <= MaxBatches
            /\ search_results' = [Count |-> count, WebEnv |-> webenv, QueryKey |-> query_key]
            /\ IF TooLarge(count)
               THEN Raise("ResultSetTooLarge")
               ELSE /\ pc' = "loop"
                    /\ UNCHANGED <<exc, outcome>>

\* Lines 95-111: the next element of the range, efetch, Medline.parse
Fetch ==
    /\ pc = "loop"
    /\ InRange(start, search_results.Count)
    /\ log' = Append(log, FetchRequest(Entrez, search_results, start, args.batch_size))
    /\ UNCHANGED <<Entrez, args, search_results, start, r>>
    /\ \/ /\ Raise("TransportError")
          /\ UNCHANGED <<stream, fetched>>
       \/ \E s \in StreamsUpTo(Min(MaxRecs, Min(args.batch_size, search_results.Count - start))) :
            /\ stream' = s
            /\ fetched' = Append(fetched, SelectSeq(s, LAMBDA x : ~IsFault(x)))
            /\ pc' = "records"
            /\ UNCHANGED <<exc, outcome>>

\* Lines 113-136: one record of the batch
ProcessRecord ==
    /\ pc = "records"
    /\ stream # <<>>
    /\ UNCHANGED <<Entrez, args, search_results, start, log, fetched>>
    /\ LET record == Head(stream)
       IN  IF IsFault(record)
           THEN Raise("TransportError") /\ UNCHANGED <<r, stream>>
           ELSE IF RowRaises(record)
           THEN Raise("ValueError") /\ UNCHANGED <<r, stream>>
           ELSE /\ r' = AppendRow(r, RowBiopython(record))
                /\ stream' = Tail(stream)
                /\ UNCHANGED <<pc, exc, outcome>>

\* Lines 138-141 and the step of the range
EndBatch ==
    /\ pc = "records"
    /\ stream = <<>>
    /\ log' = IF SleepNeeded(start, args.batch_size, search_results.Count)
              THEN Append(log, SleepEvent) ELSE log
    /\ start' = NextStart(start, args.batch_size)
    /\ pc' = "loop"
    /\ UNCHANGED <<Entrez, args, search_results, r, stream, fetched, exc, outcome>>

\* Lines 143-146
Return ==
    /\ pc = "loop"
    /\ ~InRange(start, search_results.Count)
    /\ outcome' = Returned(r)
    /\ pc' = "done"
    /\ UNCHANGED <<Entrez, args, search_results, start, r, stream, log, fetched, exc>>

\* The call has ended: its locals are gone, the module-level fields stay
Finish ==
    /\ pc = "done"
    /\ pc' = "idle"
    /\ args' = NoArgs
    /\ search_results' = NoResults
    /\ start' = 0
    /\ r' = <<>>
    /\ stream' = <<>>
    /\ log' = <<>>
    /\ fetched' = <<>>
    /\ exc' = NONE
    /\ outcome' = NoOutcome
    /\ UNCHANGED Entrez

-----------------------------------------------------------------------------
(* Initial values *)

InitBio ==
    /\ Entrez = [email |-> NONE, api_key |-> NONE]
    /\ pc = "idle"
    /\ args = NoArgs
    /\ search_results = NoResults
    /\ start = 0
    /\ r = <<>>
    /\ stream = <<>>
    /\ log = <<>>
    /\ fetched = <<>>
    /\ exc = NONE
    /\ outcome = NoOutcome

NoPrep == [invoked |-> FALSE]
NoEd == [called |-> FALSE]
NoFs == [dir |-> FALSE, files |-> {}]

InitEdIdle ==
    /\ fs = NoFs
    /\ platform = "Linux"
    /\ prep = NoPrep
    /\ installed = FALSE
    /\ ed = NoEd

InitParseIdle ==
    /\ rec = RecFull
    /\ row = [kind |-> "none"]

Init == InitBio /\ InitEdIdle /\ InitParseIdle

Next ==
    \/ \E email \in Emails, api_key \in ApiKeys, batch_size \in BatchSizes :
         Call(email, api_key, batch_size) /\ UNCHANGED <<edVars, parseVars>>
    \/ Fetch /\ UNCHANGED <<edVars, parseVars>>
    \/ ProcessRecord /\ UNCHANGED <<edVars, parseVars>>
    \/ EndBatch /\ UNCHANGED <<edVars, parseVars>>
    \/ Return /\ UNCHANGED <<edVars, parseVars>>
    \/ Finish /\ UNCHANGED <<edVars, parseVars>>

Spec == Init /\ [][Next]_vars

-----------------------------------------------------------------------------
(* Properties of pubmed_search_biopython, stated for Spec *)

Fetches == SelectOp(log, "efetch")
Sleeps == SelectOp(log, "sleep")
Searches == SelectOp(log, "esearch")
Succeeded == pc = "done" /\ outcome.kind = "returned"
Searched == search_results # NoResults

\* C1: a count above 10000 fails the call with the result-set-too-large error
\* and no efetch request and no sleep is issued in that call; a count of at
\* most 10000 (10000 included) is not rejected and the call goes on to the
\* batch loop.
C1_CountCeiling ==
    Searched =>
        IF search_results.Count > MaxResults
        THEN /\ pc = "done"
             /\ exc = "ResultSetTooLarge"
             /\ outcome = [kind |-> "error", error |-> "ResultSetTooLarge"]
             /\ Fetches = <<>>
             /\ Sleeps = <<>>
        ELSE /\ exc # "ResultSetTooLarge"
             /\ pc \in {"loop", "records", "done"}
             /\ (pc = "done" /\ search_results.Count > 0) => Fetches # <<>>

C1_Witness ==
    /\ search_results.Count = MaxResults + 1
    /\ exc = "ResultSetTooLarge"
    /\ Len(log) = 1

\* C2: no partial result is returned: when a fetch fails or a record of a
\* batch has an absent or non-numeric PMID, the error reaches the caller as
\* raised, the caller receives no table, and nothing is requested and no
\* sleep is made after the failing batch's fetch; a table is returned only
\* when every delivered record had a numeric PMID and was consumed.
C2_NoPartialResult ==
    /\ exc # NONE =>
         /\ pc = "done"
         /\ outcome = [kind |-> "error", error |-> exc]
         /\ Last(log).op \in {"esearch", "efetch"}
         /\ Last(log).op = "efetch" => Last(log).retstart = start
    /\ (stream # <<>> /\ (IsFault(Head(stream)) \/ RowRaises(Head(stream)))) =>
         outcome.kind # "returned"
    /\ outcome.kind = "returned" =>
         /\ exc = NONE
         /\ stream = <<>>
         /\ \A i \in 1..Len(Flatten(fetched)) : ~RowRaises(Flatten(fetched)[i])

C2_Witness ==
    /\ exc = "ValueError"
    /\ start > 0
    /\ Len(r) > 0
    /\ outcome.kind = "error"

\* C3: a call that completes returns one row per record the fetches
\* delivered, in retrieval order, none dropped, reordered or deduplicated;
\* with a remote that delivers every requested record the table has count
\* rows.
Faithful ==
    /\ Len(fetched) = NumBatches(search_results.Count, args.batch_size)
    /\ \A i \in 1..Len(fetched) :
         Len(fetched[i]) = Min(args.batch_size,
                               search_results.Count - (i - 1) * args.batch_size)

C3_RowPerRecord ==
    Succeeded =>
        LET delivered == Flatten(fetched)
        IN  /\ Len(outcome.table) = Len(delivered)
            /\ \A i \in 1..Len(delivered) : outcome.table[i] = RowBiopython(delivered[i])
            /\ Faithful => Len(outcome.table) = search_results.Count

C3_Witness ==
    /\ Succeeded
    /\ search_results.Count = 5
    /\ args.batch_size = 2
    /\ Faithful
    /\ Len(outcome.table) = 5
    /\ outcome.table[2].pmid = outcome.table[3].pmid
    /\ outcome.table[2] # outcome.table[3]
    /\ outcome.table[1] = outcome.table[4]

\* C5: credentials are per call and not persisted: every request of a call
\* carries the contact identifier and the access key passed to that call (a
\* call made without an access key sends none).
C5_CredentialsPerCall ==
    \A i \in 1..Len(log) :
        log[i].op \in {"esearch", "efetch"} =>
            /\ log[i].email = args.email
            /\ log[i].api_key = args.api_key

\* C8 as stated: the (start, size) pairs of the fetch requests are
\* contiguous from 0 and every request's size is min(batchSize, count - start).
C8_RequestSizeIsRemainder ==
    \A i \in 1..Len(Fetches) :
        /\ Fetches[i].retstart = (IF i = 1 THEN 0
                                  ELSE Fetches[i - 1].retstart + Fetches[i - 1].retmax)
        /\ Fetches[i].retmax = Min(args.batch_size, search_results.Count - Fetches[i].retstart)

\* C8 amended: the i-th fetch request carries retstart = (i - 1) * batchSize,
\* below count, and retmax = batchSize, the last one included; the ranges
\* [retstart, min(retstart + retmax, count)) are contiguous from 0 and, when
\* the call completes, end at count.
EffectiveEnd(request) == Min(request.retstart + request.retmax, search_results.Count)

C8_BatchRanges ==
    /\ \A i \in 1..Len(Fetches) :
         /\ Fetches[i].retstart = (i - 1) * args.batch_size
         /\ Fetches[i].retstart < search_results.Count
         /\ Fetches[i].retmax = args.batch_size
         /\ Fetches[i].retstart = (IF i = 1 THEN 0 ELSE EffectiveEnd(Fetches[i - 1]))
    /\ Succeeded =>
         IF search_results.Count = 0 THEN Fetches = <<>>
         ELSE Fetches # <<>> /\ EffectiveEnd(Last(Fetches)) = search_results.Count

C8_Witness ==
    /\ Succeeded
    /\ search_results.Count = 5
    /\ args.batch_size = 2
    /\ Len(Fetches) = 3
    /\ Last(Fetches).retmax > search_results.Count - Last(Fetches).retstart

\* C9: a call that completes has issued the search once and
\* ceil(count / batchSize) fetches (none when count = 0), every fetch with
\* the token pair that search returned.
C9_OneSearchSameTokens ==
    /\ Succeeded =>
         /\ Len(Searches) = 1
         /\ Len(Fetches) = NumBatches(search_results.Count, args.batch_size)
    /\ pc # "idle" => Len(Searches) = 1 /\ log[1].op = "esearch"
    /\ \A i \in 1..Len(Fetches) :
         /\ Fetches[i].webenv = search_results.WebEnv
         /\ Fetches[i].query_key = search_results.QueryKey
         /\ Fetches[i].webenv = Fetches[1].webenv
         /\ Fetches[i].query_key = Fetches[1].query_key

C9_Witness ==
    /\ Succeeded
    /\ search_results.Count = 4
    /\ args.batch_size = 2
    /\ Len(Fetches) = 2
    /\ Fetches[2].webenv = "MCID_2"
    /\ Fetches[2].query_key = "2"

\* C10: a call that completes has slept numBatches - 1 times (never when
\* numBatches <= 1); every sleep lasts 3 seconds, comes right after the fetch
\* of a non-final batch once all its records are processed, is followed by
\* the next fetch, and none follows the final batch.
C10_SleepBetweenBatches ==
    /\ Succeeded =>
         LET n == NumBatches(search_results.Count, args.batch_size)
         IN  /\ Len(Sleeps) = (IF n <= 1 THEN 0 ELSE n - 1)
             /\ Last(log).op # "sleep"
    /\ \A i \in 1..Len(log) :
         log[i].op = "sleep" =>
            /\ log[i].secs = 3
            /\ i > 1 /\ log[i - 1].op = "efetch"
            /\ log[i - 1].retstart + log[i - 1].retmax < search_results.Count
            /\ i < Len(log) => log[i + 1].op = "efetch"
            /\ i = Len(log) =>
                 /\ pc = "loop"
                 /\ start < search_results.Count
                 /\ stream = <<>>
                 /\ Len(r) = Len(Flatten(fetched))

C10_Witness ==
    /\ Succeeded
    /\ search_results.Count = 5
    /\ args.batch_size = 2
    /\ Len(Sleeps) = 2
    /\ Len(Fetches) = 3

-----------------------------------------------------------------------------
(* prepare_edirect_folder *)

Platforms == {"Linux", "Windows", "Darwin"}
ToolFiles == {"esearch", "efetch", "xtract"}
\* What edirect.zip holds under its edirect/ directory
ArchiveFiles == {"esearch", "efetch"}
FailPoints == {"none", "urlretrieve_zip", "extractall", "urlretrieve_gz", "gzip"}

Ready_ZipCheck(f) == f.dir /\ "edirect.zip" \in f.files

\* os.path.exists(os.path.join(edirect_path, "esearch"))
Ready(f) == f.dir /\ "esearch" \in f.files

\* The run of prepare_edirect_folder on directory f, with the step that
\* raises: the directory it leaves, the file operations it performed, what
\* it printed and what it raised.
PrepareRun(f, failAt) ==
    LET made == IF f.dir THEN <<>> ELSE <<"makedirs">>
        d0 == [dir |-> TRUE, files |-> f.files]
        d1 == [d0 EXCEPT !.files = @ \cup {"edirect.zip"}]
        d2 == [d1 EXCEPT !.files = (@ \cup ArchiveFiles) \ {"edirect.zip"}]
        d3 == [d2 EXCEPT !.files = @ \cup {"xtract.Linux.gz"}]
        d4 == [d3 EXCEPT !.files = (@ \cup {"xtract"}) \ {"xtract.Linux.gz"}]
        begun == <<"Downloading and extracting edirect...">>
    IN  IF Ready(d0)
        THEN [fs |-> d0, ops |-> made, msgs |-> <<"EDirect already ready!">>, raised |-> NONE]
        ELSE IF failAt = "urlretrieve_zip"
        THEN [fs |-> d0, ops |-> made, msgs |-> begun, raised |-> "URLError"]
        ELSE IF failAt = "extractall"
        THEN [fs |-> d1, ops |-> made \o <<"download">>, msgs |-> begun, raised |-> "BadZipFile"]
        ELSE IF failAt = "urlretrieve_gz"
        THEN [fs |-> d2, ops |-> made \o <<"download", "extract", "move", "delete">>,
              msgs |-> begun, raised |-> "URLError"]
        ELSE IF failAt = "gzip"
        THEN [fs |-> d3, ops |-> made \o <<"download", "extract", "move", "delete", "download">>,
              msgs |-> begun, raised |-> "BadGzipFile"]
        ELSE [fs |-> d4,
              ops |-> made \o <<"download", "extract", "move", "delete",
                                "download", "extract", "delete">>,
              msgs |-> begun \o <<"EDirect ready!">>, raised |-> NONE]

PrepareEdirectFolder(failAt) ==
    LET run == PrepareRun(fs, failAt)
    IN  /\ fs' = run.fs
        /\ prep' = [invoked |-> TRUE, before |-> fs, wasInstalled |-> installed,
                    ops |-> run.ops, msgs |-> run.msgs, raised |-> run.raised]
        /\ installed' = (installed \/ run.raised = NONE)
        /\ UNCHANGED <<platform, ed>>

-----------------------------------------------------------------------------
(* pubmed_search_edirect *)

\* The Medline text the tool printed, as the records Medline.parse yields
Outputs == {s \in StreamsUpTo(MaxRecs) : \A i \in 1..Len(s) : ~IsFault(s[i])}

RowsEdirect(s) == [i \in 1..Len(s) |-> RowEdirect(s[i])]

\* Linux passes the key in the environment, Windows in the wsl command
Launch(system, api_key) ==
    [via |-> IF system = "Linux" THEN "shell" ELSE "wsl",
     key |-> IF api_key # NONE THEN api_key ELSE NONE]

\* The run of pubmed_search_edirect: the subprocesses launched, the error
\* raised and the table returned. output is what the subprocess printed,
\* or "CalledProcessError" when check_output raises.
SearchRun(f, system, api_key, failed, output) ==
    IF ~f.dir
    THEN [launched |-> <<>>, raised |-> "ImportError", table |-> <<>>]
    ELSE IF system \notin {"Linux", "Windows"}
    THEN [launched |-> <<>>, raised |-> "UnsupportedPlatform", table |-> <<>>]
    ELSE IF failed
    THEN [launched |-> <<Launch(system, api_key)>>, raised |-> "CalledProcessError",
          table |-> <<>>]
    ELSE IF \E i \in 1..Len(output) : RowRaises(output[i])
    THEN [launched |-> <<Launch(system, api_key)>>, raised |-> "ValueError", table |-> <<>>]
    ELSE [launched |-> <<Launch(system, api_key)>>, raised |-> NONE,
          table |-> RowsEdirect(output)]

PubmedSearchEdirect(api_key, failed, output) ==
    LET run == SearchRun(fs, platform, api_key, failed, output)
    IN  /\ ed' = [called |-> TRUE, before |-> fs, launched |-> run.launched,
                  raised |-> run.raised, table |-> run.table]
        /\ UNCHANGED <<fs, platform, prep, installed>>

InitEdirect ==
    /\ fs = NoFs
    /\ platform \in Platforms
    /\ prep = NoPrep
    /\ installed = FALSE
    /\ ed = NoEd

NextEdirect ==
    \/ \E failAt \in FailPoints :
         PrepareEdirectFolder(failAt) /\ UNCHANGED <<bioVars, parseVars>>
    \/ \E api_key \in ApiKeys, failed \in BOOLEAN :
         \E output \in (IF failed THEN {<<>>} ELSE Outputs) :
            PubmedSearchEdirect(api_key, failed, output) /\ UNCHANGED <<bioVars, parseVars>>

InitEdirectCalls == InitBio /\ InitEdirect /\ InitParseIdle

SpecEdirect == InitEdirectCalls /\ [][NextEdirect]_vars

\* C6 as stated: when the tool's executables are absent from the install
\* directory the call fails with the tool-not-installed error and launches
\* no subprocess; on a platform that is neither Linux nor Windows it
\* launches none either and, the executables being there, fails with the
\* unsupported-platform error.
ExecutablesAbsent(f) == ~f.dir \/ ~({"esearch", "efetch"} \subseteq f.files)

C6_NoLaunchWithoutInstallation ==
    ed.called =>
        /\ ExecutablesAbsent(ed.before) =>
             ed.raised = "ImportError" /\ ed.launched = <<>>
        /\ platform \notin {"Linux", "Windows"} => ed.launched = <<>>
        /\ (platform \notin {"Linux", "Windows"} /\ ~ExecutablesAbsent(ed.before)) =>
             ed.raised = "UnsupportedPlatform"

\* C7: once an invocation of prepare_edirect_folder has run to its end and
\* the tool's files are in the install directory, a further invocation
\* downloads, extracts, moves and deletes nothing, leaves the directory as
\* it was and only prints the 'already ready' message.
C7_PrepareIdempotent ==
    (prep.invoked /\ prep.wasInstalled /\ prep.before.dir
        /\ ToolFiles \subseteq prep.before.files) =>
        /\ prep.ops = <<>>
        /\ prep.raised = NONE
        /\ prep.msgs = <<"EDirect already ready!">>
        /\ fs = prep.before

C7_Witness ==
    /\ prep.invoked
    /\ prep.wasInstalled
    /\ ToolFiles \subseteq prep.before.files
    /\ prep.ops = <<>>
    /\ fs = prep.before

-----------------------------------------------------------------------------
(* The row of one record, in both paths *)

TitleChars == {"F", " ", "\n", "\t"}
AbstractChars == {"x", " ", "\n"}

FullRecord(ti, ab) ==
    [PMID |-> <<"1", "2">>, TI |-> ti, AB |-> ab,
     FAU |-> "Doe, J", DP |-> "2023", MH |-> "Humans", OT |-> "k"]

ParseRecords ==
    {FullRecord(ti, ab) : ti \in TextsUpTo(TitleChars, MaxStrLen),
                          ab \in TextsUpTo(AbstractChars, MaxAbLen)}
    \cup {RecDup, RecNoId, RecBadId, [PMID |-> <<"2", "0">>]}

\* Lines 115-134
BuildRowBiopython ==
    /\ row' = IF RowRaises(rec) THEN [kind |-> "raised", path |-> "biopython"]
              ELSE [kind |-> "row", path |-> "biopython", row |-> RowBiopython(rec)]
    /\ UNCHANGED rec

\* Lines 229-246
BuildRowEdirect ==
    /\ row' = IF RowRaises(rec) THEN [kind |-> "raised", path |-> "edirect"]
              ELSE [kind |-> "row", path |-> "edirect", row |-> RowEdirect(rec)]
    /\ UNCHANGED rec

InitParse ==
    /\ rec \in ParseRecords
    /\ row = [kind |-> "none"]

NextParse ==
    \/ BuildRowBiopython /\ UNCHANGED <<bioVars, edVars>>
    \/ BuildRowEdirect /\ UNCHANGED <<bioVars, edVars>>

InitRows == InitBio /\ InitEdIdle /\ InitParse

SpecParse == InitRows /\ [][NextParse]_vars

\* out is src with every run of whitespace characters replaced by one space:
\* the characters of src that are kept are those that do not follow a
\* whitespace character while being one.
Kept(src) == {i \in 1..Len(src) : src[i] \notin Whitespace \/ i = 1 \/ src[i - 1] \notin Whitespace}

IsCollapseOf(out, src) ==
    /\ Len(out) = Cardinality(Kept(src))
    /\ \A i \in Kept(src) :
         out[Cardinality({j \in Kept(src) : j <= i})] =
             (IF src[i] \in Whitespace THEN " " ELSE src[i])

VerbatimFields(built, record) ==
    /\ built.fau = Get(record, "FAU")
    /\ built.dp = Get(record, "DP")
    /\ built.mh = Get(record, "MH")
    /\ built.ot = Get(record, "OT")

\* C4 as stated: ti is whitespace-collapsed in the rows of both paths; ab is
\* collapsed in the API path and verbatim in the local-tool path; fau, dp,
\* mh and ot are verbatim in both.
C4_TitleCollapsedInBothPaths ==
    row.kind = "row" =>
        /\ IsCollapseOf(row.row.ti, Get(rec, "TI"))
        /\ IF row.path = "biopython"
           THEN IsCollapseOf(row.row.ab, Get(rec, "AB"))
           ELSE row.row.ab = Get(rec, "AB")
        /\ VerbatimFields(row.row, rec)

\* C4 amended: in the API path ti and ab have every run of whitespace
\* collapsed to one space; in the local-tool path ti and ab are both left
\* verbatim; fau, dp, mh and ot are verbatim in both paths.
C4_WhitespacePerPath ==
    row.kind = "row" =>
        /\ IF row.path = "biopython"
           THEN /\ IsCollapseOf(row.row.ti, Get(rec, "TI"))
                /\ IsCollapseOf(row.row.ab, Get(rec, "AB"))
           ELSE /\ row.row.ti = Get(rec, "TI")
                /\ row.row.ab = Get(rec, "AB")
        /\ VerbatimFields(row.row, rec)

C4_Witness ==
    /\ row.kind = "row"
    /\ row.path = "biopython"
    /\ Get(rec, "TI") = <<"F", "\n", "\t", "F">>
    /\ row.row.ti = <<"F", " ", "F">>
    /\ Get(rec, "AB") = <<" ", "\n">>
    /\ row.row.ab = <<" ">>
    /\ row.row.fau = "Doe, J"

=============================================================================
